---------------------------- MODULE Spec2Model ----------------------------
(***************************************************************************)
(* vite-plugin-markdown: the recursive directory scan (scanDirectory), the *)
(* watch-set enumeration (collectMarkdownFiles), the rebuild               *)
(* (buildMarkdownData) and the plugin hooks (configResolved, buildStart,   *)
(* load, handleHotUpdate) of packages/vite-plugin-markdown/src/index.ts.   *)
(*                                                                         *)
(* Strings the code computes with (entry names, paths) are sequences of    *)
(* one-character strings, so that extname, basename, join and relative are *)
(* computed character by character.  File contents are opaque strings.     *)
(***************************************************************************)
EXTENDS Integers, Sequences, FiniteSets, TLC

VARIABLES
    platform,       \* "posix" or "win32": decides node:path's separator
    opts,           \* [parseFrontmatter, parseMarkdown, generateTypes]
    fs,             \* the disk below markdownDir: relative path -> entry
    rootDir,        \* config.root once configResolved ran, else Unset
    markdownDir,    \* path.resolve(rootDir, directory), else Unset
    markdownData,   \* [def |-> FALSE] or [def |-> TRUE, tree |-> the tree]
    watchedFiles,   \* the Set of absolute paths
    tasks,          \* the asynchronous calls of buildStart / handleHotUpdate
    declFile,       \* the persisted declaration: [exists, text]
    sent,           \* what the dev server was told: invalidate / full-reload
    addWatch,       \* paths given to this.addWatchFile
    moduleLoaded,   \* the virtual module is in the module graph
    nEvents,        \* number of handleHotUpdate calls so far
    nFsOps,         \* number of changes made to the disk so far
    treeBy,         \* history: the task whose scan result is markdownData (0: none)
    watchBy         \* history: the tasks that added to watchedFiles since its last clear

vars == <<platform, opts, fs, rootDir, markdownDir, markdownData, watchedFiles,
          tasks, declFile, sent, addWatch, moduleLoaded, nEvents, nFsOps,
          treeBy, watchBy>>

-----------------------------------------------------------------------------
(* Bounds of the model *)

\* handleHotUpdate is called at most this many times
MaxEvents == 1

\* the disk is changed at most this many times while the plugin runs
MaxFsOps == 1

-----------------------------------------------------------------------------
(* Strings *)

DotMd == <<".", "m", "d">>
DotMarkdown == <<".", "m", "a", "r", "k", "d", "o", "w", "n">>

N_a_md == <<"a">> \o DotMd
N_b_markdown == <<"b">> \o DotMarkdown
N_c_MD == <<"c", ".", "M", "D">>
N_dotmd == DotMd
N_x_txt == <<"x", ".", "t", "x", "t">>
N_g == <<"g">>
N_h == <<"h">>
N_node_modules == <<"n", "o", "d", "e", "_", "m", "o", "d", "u", "l", "e", "s">>

Unset == <<>>

\* path.sep of the platform's node:path
Sep(pf) == IF pf = "win32" THEN "\\" ELSE "/"

\* config.root as the host resolves it on each platform
ConfigRoot(pf) == IF pf = "win32" THEN <<"C", ":", "\\", "p">> ELSE <<"/", "p">>

\* the `directory` option (a relative directory name)
Directory == <<"d">>

\* the `virtualModuleId` option
VirtualModuleId == "virtual:markdown"

EndsWith(s, suffix) ==
    /\ Len(suffix) <= Len(s)
    /\ SubSeq(s, Len(s) - Len(suffix) + 1, Len(s)) = suffix

StartsWith(s, prefix) ==
    /\ Len(prefix) <= Len(s)
    /\ SubSeq(s, 1, Len(prefix)) = prefix

\* index of the last "." of s, 0 when there is none
LastDot(s) ==
    LET dots == {i \in 1..Len(s) : s[i] = "."}
    IN  IF dots = {} THEN 0 ELSE CHOOSE i \in dots : \A j \in dots : j <= i

\* path.extname of an entry name (a name holds no separator): from the last
\* dot on; empty when there is no dot, when the last dot is the first
\* character, and for the name "..".
Extname(name) ==
    LET d == LastDot(name)
    IN  IF d = 0 \/ d = 1 THEN <<>>
        ELSE IF d = 2 /\ Len(name) = 2 /\ name[1] = "." THEN <<>>
        ELSE SubSeq(name, d, Len(name))

\* path.basename(name, ext) of an entry name: the suffix ext removed
Basename(name, ext) ==
    IF ext = name THEN <<>>
    ELSE IF Len(ext) > 0 /\ EndsWith(name, ext)
         THEN SubSeq(name, 1, Len(name) - Len(ext))
         ELSE name

\* path.join(dir, name) for a normalized dir and an entry name
Join(pf, dir, name) == dir \o <<Sep(pf)>> \o name

\* path.resolve(root, directory) for an absolute root and a relative name
Resolve(pf, root, dir) == root \o <<Sep(pf)>> \o dir

\* path.relative(from, to) for `to` equal to or below `from`: what follows
\* from and one separator
Relative(pf, from, to) ==
    IF to = from THEN <<>>
    ELSE IF StartsWith(to, from \o <<Sep(pf)>>)
         THEN SubSeq(to, Len(from) + 2, Len(to))
         ELSE <<".", ".">> \o <<Sep(pf)>> \o to


-----------------------------------------------------------------------------
(* The disk below the configured directory *)

\* relative paths (sequences of entry names) the model's disk can hold
RootP == <<>>
P_a == <<N_a_md>>
P_c == <<N_c_MD>>
P_g == <<N_g>>
P_gb == <<N_g, N_b_markdown>>
P_gd == <<N_g, N_dotmd>>
P_gh == <<N_g, N_h>>
P_gha == <<N_g, N_h, N_a_md>>
P_ghx == <<N_g, N_h, N_x_txt>>
P_nm == <<N_node_modules>>
P_nma == <<N_node_modules, N_a_md>>

Paths == {RootP, P_a, P_c, P_g, P_gb, P_gd, P_gh, P_gha, P_ghx, P_nm, P_nma}

\* What a path holds.  Files are tagged by their content:
\*   "fm"         a header section with fields, then a body
\*   "nofm"       no header section
\*   "emptyfm"    an empty header section, then a body
\*   "badfm"      a header section gray-matter rejects (it throws)
\*   "badmd"      a body marked rejects (it throws)
\*   "unreadable" fs.readFile rejects
\* "dir_noread" is a directory fs.stat accepts and fs.readdir rejects;
\* "other" is neither a file nor a directory (a socket, a FIFO).
FileTags == {"fm", "nofm", "emptyfm", "badfm", "badmd", "unreadable"}
DirTags == {"dir", "dir_noread"}

\* the entries each path takes in the model
Allowed(p) ==
    CASE p = RootP -> {"none", "dir", "dir_noread"}
      [] p = P_a   -> {"none", "fm", "nofm", "badmd", "dir"}
      [] p = P_c   -> {"none", "nofm"}
      [] p = P_g   -> {"none", "dir", "nofm", "other"}
      [] p = P_gb  -> {"none", "emptyfm", "fm", "badfm"}
      [] p = P_gd  -> {"none", "nofm"}
      [] p = P_gh  -> {"none", "dir", "other"}
      [] p = P_gha -> {"none", "nofm", "fm", "unreadable"}
      [] p = P_ghx -> {"none", "unreadable"}
      [] p = P_nm  -> {"none", "dir"}
      [] p = P_nma -> {"none", "nofm"}

Parent(p) == SubSeq(p, 1, Len(p) - 1)

\* entries exist only inside directories that exist
WellFormed(f) ==
    \A p \in Paths \ {RootP} : f[p] # "none" => f[Parent(p)] = "dir"

MkFs(r, a, c, g, gb, gd, gh, gha, ghx, nm, nma) ==
    [p \in Paths |->
        CASE p = RootP -> r
          [] p = P_a   -> a
          [] p = P_c   -> c
          [] p = P_g   -> g
          [] p = P_gb  -> gb
          [] p = P_gd  -> gd
          [] p = P_gh  -> gh
          [] p = P_gha -> gha
          [] p = P_ghx -> ghx
          [] p = P_nm  -> nm
          [] p = P_nma -> nma]

\* the entries a path takes below a parent holding parentEntry
Under(parentEntry, p) == IF parentEntry = "dir" THEN Allowed(p) ELSE {"none"}

\* every disk of the model: the disks over Allowed that are WellFormed
AllFs ==
    UNION {UNION {UNION {
        {MkFs(r, a, c, g, gb, gd, gh, gha, ghx, nm, nma) :
            a \in Under(r, P_a), c \in Under(r, P_c),
            gb \in Under(g, P_gb), gd \in Under(g, P_gd),
            gha \in Under(gh, P_gha), ghx \in Under(gh, P_ghx),
            nma \in Under(nm, P_nma)}
        : gh \in Under(g, P_gh)}
        : g \in Under(r, P_g), nm \in Under(r, P_nm)}
        : r \in Allowed(RootP)}

\* fs.stat(dir) resolves
StatOk(e) == e # "none"

\* fs.readdir(dir) resolves
ReaddirOk(e) == e = "dir"

\* the names fs.readdir lists in the directory at rel
Readdir(f, rel) ==
    {p[Len(p)] : p \in {q \in Paths : /\ Len(q) = Len(rel) + 1
                                      /\ SubSeq(q, 1, Len(rel)) = rel
                                      /\ f[q] # "none"}}

\* Dirent.isDirectory() and Dirent.isFile()
IsDirectory(e) == e \in DirTags
IsFile(e) == e \in FileTags

\* fs.readFile(path, 'utf-8'): [ok, text]
ReadFile(e) ==
    CASE e = "fm"      -> [ok |-> TRUE, text |-> "---title: Welcome---Body"]
      [] e = "nofm"    -> [ok |-> TRUE, text |-> "Body"]
      [] e = "emptyfm" -> [ok |-> TRUE, text |-> "------Body"]
      [] e = "badfm"   -> [ok |-> TRUE, text |-> "---title: [---Body"]
      [] e = "badmd"   -> [ok |-> TRUE, text |-> "Body<"]
      [] OTHER         -> [ok |-> FALSE, text |-> ""]

EmptyObj == <<>>

\* gray-matter: [ok, data, content]; no header section gives empty data
\* and the whole text as content
Matter(raw) ==
    CASE raw = "---title: Welcome---Body" ->
            [ok |-> TRUE, data |-> [title |-> "Welcome"], content |-> "Body"]
      [] raw = "------Body" ->
            [ok |-> TRUE, data |-> EmptyObj, content |-> "Body"]
      [] raw = "---title: [---Body" ->
            [ok |-> FALSE, data |-> EmptyObj, content |-> ""]
      [] OTHER ->
            [ok |-> TRUE, data |-> EmptyObj, content |-> raw]

\* marked: [ok, html]
Marked(text) ==
    IF text = "Body<" THEN [ok |-> FALSE, html |-> <<>>]
    ELSE [ok |-> TRUE, html |-> <<"<p>", text, "</p>">>]

-----------------------------------------------------------------------------
(* scanDirectory *)

Threw == [ok |-> FALSE, tree |-> EmptyObj]
Returned(t) == [ok |-> TRUE, tree |-> t]

\* (variant: the failed stat is not caught)
OnStatFailure_rethrown == Threw

\* `try { await fs.stat(dirPath) } catch { return result }`: a directory
\* that cannot be stat'ed gives the empty mapping, not an error
OnStatFailure == Returned(EmptyObj)

\* (variant: every directory is kept)
IncludeDirectory_always(children) == TRUE

\* `Object.keys(children).length > 0`: a directory is kept only with children
IncludeDirectory(children) == DOMAIN children # {}

\* (variant: only '.md' is accepted)
IsMarkdownExt_mdOnly(ext) == ext = DotMd

\* `ext === '.md' || ext === '.markdown'`
IsMarkdownExt(ext) == ext = DotMd \/ ext = DotMarkdown

\* (variant: the arguments of path.relative swapped)
RelativePathOf_swapped(pf, rootPath, fullPath) == Relative(pf, fullPath, rootPath)

\* path.relative(rootPath, fullPath) as scanDirectory calls it
RelativePathOf(pf, rootPath, fullPath) == Relative(pf, rootPath, fullPath)

\* `const name = path.basename(entry.name, ext)`
NodeName(entryName, ext) == Basename(entryName, ext)

\* (variant: frontmatter attached whenever extraction is enabled)
HeaderFields_alwaysBoth(parsed, shouldParseFrontmatter) ==
    IF shouldParseFrontmatter
    THEN [frontmatter |-> parsed.data, body |-> parsed.content]
    ELSE EmptyObj

\* (variant: body attached only along with frontmatter)
HeaderFields_bodyWithHeaderOnly(parsed, shouldParseFrontmatter) ==
    IF shouldParseFrontmatter /\ DOMAIN parsed.data # {}
    THEN [frontmatter |-> parsed.data, body |-> parsed.content]
    ELSE EmptyObj

\* the frontmatter / body fields of a file node
HeaderFields(parsed, shouldParseFrontmatter) ==
    IF shouldParseFrontmatter
    THEN (IF DOMAIN parsed.data # {} THEN [frontmatter |-> parsed.data]
                                     ELSE EmptyObj)
         @@ [body |-> parsed.content]
    ELSE EmptyObj

\* the text given to marked: the body when the header was extracted, else
\* the raw content
MarkupSource(parsed, rawContent, shouldParseFrontmatter) ==
    IF shouldParseFrontmatter THEN parsed.content ELSE rawContent

\* the file node of one qualifying file whose content was read: [ok, node]
FileNode(name, relativePath, rawContent, shouldParseFrontmatter, shouldParseMarkdown) ==
    LET parsed == Matter(rawContent)
        md == Marked(MarkupSource(parsed, rawContent, shouldParseFrontmatter))
        base == [type |-> "file", name |-> name, path |-> relativePath,
                 content |-> rawContent]
    IN  IF shouldParseFrontmatter /\ ~parsed.ok THEN [ok |-> FALSE, node |-> base]
        ELSE IF shouldParseMarkdown /\ ~md.ok THEN [ok |-> FALSE, node |-> base]
        ELSE [ok |-> TRUE,
              node |-> base
                       @@ HeaderFields(parsed, shouldParseFrontmatter)
                       @@ (IF shouldParseMarkdown THEN [html |-> md.html]
                                                  ELSE EmptyObj)]

\* one qualifying file entry: read, then build the node: [ok, node]
ScanFile(e, entryName, ext, relativePath, shouldParseFrontmatter, shouldParseMarkdown) ==
    LET read == ReadFile(e)
    IN  IF ~read.ok THEN [ok |-> FALSE, node |-> EmptyObj]
        ELSE FileNode(NodeName(entryName, ext), relativePath, read.text,
                      shouldParseFrontmatter, shouldParseMarkdown)

DirectoryNode(entryName, relativePath, children) ==
    [type |-> "directory", name |-> entryName, path |-> relativePath,
     children |-> children]

\* scanDirectory(dirPath, rootPath, shouldParseFrontmatter, shouldParseMarkdown)
\* on the disk f, where rel is the directory dirPath names: [ok, tree];
\* ok is FALSE when the promise rejects.
RECURSIVE scanDirectory(_, _, _, _, _, _, _)
scanDirectory(f, pf, rel, dirPath, rootPath, shouldParseFrontmatter, shouldParseMarkdown) ==
    IF ~StatOk(f[rel]) THEN OnStatFailure
    ELSE IF ~ReaddirOk(f[rel]) THEN Threw
    ELSE
      LET entries == Readdir(f, rel)
          ent(n) == f[rel \o <<n>>]
          fullPath(n) == Join(pf, dirPath, n)
          relativePath(n) == RelativePathOf(pf, rootPath, fullPath(n))
          sub == [n \in {m \in entries : IsDirectory(ent(m))} |->
                    scanDirectory(f, pf, rel \o <<n>>, fullPath(n), rootPath,
                                  shouldParseFrontmatter, shouldParseMarkdown)]
          docs == {n \in entries : IsFile(ent(n)) /\ IsMarkdownExt(Extname(n))}
          file == [n \in docs |->
                     ScanFile(ent(n), n, Extname(n), relativePath(n),
                              shouldParseFrontmatter, shouldParseMarkdown)]
          keys == {n \in DOMAIN sub : IncludeDirectory(sub[n].tree)} \cup docs
      IN  IF \/ \E n \in DOMAIN sub : ~sub[n].ok
             \/ \E n \in docs : ~file[n].ok
          THEN Threw
          ELSE Returned([n \in keys |->
                          IF n \in docs THEN file[n].node
                          ELSE DirectoryNode(n, relativePath(n), sub[n].tree)])

-----------------------------------------------------------------------------
(* collectMarkdownFiles *)

\* collectMarkdownFiles(dir) on the disk f, rel being the directory dir
\* names: [ok, files]; ok is FALSE when the promise rejects.
RECURSIVE collectMarkdownFiles(_, _, _, _)
collectMarkdownFiles(f, pf, rel, dir) ==
    IF ~StatOk(f[rel]) THEN [ok |-> TRUE, files |-> {}]
    ELSE IF ~ReaddirOk(f[rel]) THEN [ok |-> FALSE, files |-> {}]
    ELSE
      LET entries == Readdir(f, rel)
          ent(n) == f[rel \o <<n>>]
          fullPath(n) == Join(pf, dir, n)
          sub == [n \in {m \in entries : IsDirectory(ent(m))} |->
                    collectMarkdownFiles(f, pf, rel \o <<n>>, fullPath(n))]
          docs == {n \in entries : IsFile(ent(n)) /\ IsMarkdownExt(Extname(n))}
      IN  IF \E n \in DOMAIN sub : ~sub[n].ok
          THEN [ok |-> FALSE, files |-> {}]
          ELSE [ok |-> TRUE,
                files |-> {fullPath(n) : n \in docs}
                          \cup UNION {sub[n].files : n \in DOMAIN sub}]

-----------------------------------------------------------------------------
(* generateTypeDeclaration: the declaration as a structure, one field per *)
(* declared member                                                         *)

\* inferType of a header value (the model's header values are strings)
inferType(value) == "string"

\* `'${text}'`: the text between single quotes, character for character;
\* nothing is escaped
Quoted(text) == <<"'">> \o text \o <<"'">>

\* `'${key}': ...` for each entry of a mapping: the member names of the
\* object type, and the entry a member name was written for
QuotedKeys(mapping) == {Quoted(k) : k \in DOMAIN mapping}
EntryOf(mapping, q) == mapping[CHOOSE k \in DOMAIN mapping : Quoted(k) = q]

generateFrontmatterType(frontmatter) ==
    [k \in DOMAIN frontmatter |-> inferType(frontmatter[k])]

RECURSIVE generateNodeType(_, _, _)
generateNodeType(node, parseFrontmatter, parseMarkdown) ==
    IF node.type = "file"
    THEN [type |-> "file", name |-> Quoted(node.name),
          path |-> Quoted(node.path), content |-> "string"]
         @@ (IF parseFrontmatter
             THEN [frontmatter |->
                      IF "frontmatter" \in DOMAIN node
                      THEN [decl |-> "object",
                            fields |-> generateFrontmatterType(node.frontmatter)]
                      ELSE [decl |-> "Record<string, never>"],
                   body |-> "string"]
             ELSE EmptyObj)
         @@ (IF parseMarkdown THEN [html |-> "string"] ELSE EmptyObj)
    ELSE [type |-> "directory", name |-> Quoted(node.name),
          path |-> Quoted(node.path),
          children |-> [q \in QuotedKeys(node.children) |->
                          generateNodeType(EntryOf(node.children, q),
                                           parseFrontmatter, parseMarkdown)]]

generateTypeDeclaration(data, virtualModuleId, parseFrontmatter, parseMarkdown) ==
    [module |-> virtualModuleId,
     markdownData |-> [q \in QuotedKeys(data) |->
                         generateNodeType(EntryOf(data, q), parseFrontmatter,
                                          parseMarkdown)]]

-----------------------------------------------------------------------------
(* load: `export default ${JSON.stringify(markdownData, null, 2)};` *)

\* JSON.stringify of a tree: an object per mapping and per node, its members
\* the node's own fields
RECURSIVE JsonOfTree(_)
JsonOfTree(tree) ==
    [json |-> "object",
     members |-> [k \in DOMAIN tree |->
        IF tree[k].type = "file"
        THEN [json |-> "object",
              members |-> [fld \in DOMAIN tree[k] |-> tree[k][fld]]]
        ELSE [json |-> "object",
              members |-> [fld \in DOMAIN tree[k] |->
                              IF fld = "children"
                              THEN JsonOfTree(tree[k].children)
                              ELSE tree[k][fld]]]]]

\* JSON.stringify(undefined) is undefined, printed as "undefined"
LoadResult(data) ==
    [exportDefault |-> IF data.def THEN JsonOfTree(data.tree)
                                   ELSE [json |-> "undefined"]]

-----------------------------------------------------------------------------
(* The plugin instance *)

Undefined == [def |-> FALSE]
Defined(t) == [def |-> TRUE, tree |-> t]

NoDecl == [exists |-> FALSE]

\* absolute path of a path of the disk
RECURSIVE AbsOf(_, _)
AbsOf(pf, p) ==
    IF p = RootP THEN Resolve(pf, ConfigRoot(pf), Directory)
    ELSE Join(pf, AbsOf(pf, Parent(p)), p[Len(p)])

\* the files change notifications are about
HotFiles(pf) == {AbsOf(pf, p) : p \in {P_a, P_c, P_gha}}

\* the disk when the plugin starts: the documented layout
Fixture ==
    MkFs("dir", "fm", "nofm", "dir", "emptyfm", "none", "dir", "nofm", "none",
         "none", "none")

Options == [parseFrontmatter : BOOLEAN, parseMarkdown : BOOLEAN,
            generateTypes : BOOLEAN]

\* a call of buildStart ("start") or handleHotUpdate ("hot") in flight.
\* pc is where its buildMarkdownData stands: awaiting scanDirectory
\* ("scan"), awaiting collectMarkdownFiles ("collect"), awaiting the
\* declaration's stat/mkdir/writeFile ("persist"), returned ("done") or
\* rejected ("failed", error naming the step).
\* History fields: preTree/preWatch (markdownData and watchedFiles when the
\* rebuild started), preBy (treeBy when it started), scanDir (the directory
\* given to scanDirectory), sawDir (a stat of the directory succeeded),
\* installed/filled/wrote (the steps this call made), signalled (it sent
\* its signals).
NewTask(kind, file, data, watched, dir) ==
    [kind |-> kind, pc |-> "scan", error |-> "", file |-> file,
     decl |-> NoDecl, preTree |-> data, preWatch |-> watched,
     preBy |-> treeBy, scanDir |-> dir, sawDir |-> FALSE,
     installed |-> FALSE, filled |-> FALSE, wrote |-> FALSE,
     signalled |-> FALSE]

Running(t) == t.pc \in {"scan", "collect", "persist"}

InitCommon ==
    /\ rootDir = Unset
    /\ markdownDir = Unset
    /\ markdownData = Undefined
    /\ watchedFiles = {}
    /\ tasks = <<>>
    /\ declFile = NoDecl
    /\ sent = <<>>
    /\ addWatch = {}
    /\ moduleLoaded = FALSE
    /\ nEvents = 0
    /\ nFsOps = 0
    /\ treeBy = 0
    /\ watchBy = {0}

\* the platforms and options the plugin starts with: the defaults, the
\* demo's options, and everything off
StartConfigs ==
    {<<"posix", [parseFrontmatter |-> TRUE, parseMarkdown |-> FALSE,
                 generateTypes |-> TRUE]>>,
     <<"win32", [parseFrontmatter |-> TRUE, parseMarkdown |-> TRUE,
                 generateTypes |-> TRUE]>>,
     <<"posix", [parseFrontmatter |-> FALSE, parseMarkdown |-> FALSE,
                 generateTypes |-> FALSE]>>}

Init ==
    /\ InitCommon
    /\ \E c \in StartConfigs : platform = c[1] /\ opts = c[2]
    /\ fs = Fixture

\* configResolved(config)
ConfigResolved ==
    /\ rootDir = Unset
    /\ rootDir' = ConfigRoot(platform)
    /\ markdownDir' = Resolve(platform, rootDir', Directory)
    /\ UNCHANGED <<platform, opts, fs, markdownData, watchedFiles, tasks,
                   declFile, sent, addWatch, moduleLoaded,
                   nEvents, nFsOps, treeBy, watchBy>>

\* buildStart(): calls buildMarkdownData, which calls scanDirectory and
\* suspends at its first await
BuildStart ==
    /\ markdownDir # Unset
    /\ tasks = <<>>
    /\ tasks' = <<NewTask("start", <<>>, markdownData, watchedFiles, markdownDir)>>
    /\ UNCHANGED <<platform, opts, fs, rootDir, markdownDir, markdownData,
                   watchedFiles, declFile, sent, addWatch, moduleLoaded,
                   nEvents, nFsOps, treeBy, watchBy>>

\* (variant: every change notification is taken as relevant)
HotUpdateRelevant_always(file, watched) == TRUE

\* `if (watchedFiles.has(file))`
HotUpdateRelevant(file, watched) == file \in watched

\* handleHotUpdate({ file, server }) up to its first await
HandleHotUpdate(file) ==
    /\ markdownDir # Unset
    /\ nEvents < MaxEvents
    /\ nEvents' = nEvents + 1
    /\ IF HotUpdateRelevant(file, watchedFiles)
       THEN tasks' = Append(tasks, NewTask("hot", file, markdownData,
                                           watchedFiles, markdownDir))
       ELSE tasks' = tasks
    /\ UNCHANGED <<platform, opts, fs, rootDir, markdownDir, markdownData,
                   watchedFiles, declFile, sent, addWatch, moduleLoaded,
                   nFsOps, treeBy, watchBy>>

\* (variant: the reload is sent before the module is invalidated)
HotSignals_reloadFirst(loaded) ==
    <<"full-reload">> \o (IF loaded THEN <<"invalidate">> ELSE <<>>)

\* the messages handleHotUpdate sends once its rebuild returned: the
\* module is invalidated when it is in the module graph, then full-reload
HotSignals(loaded) ==
    (IF loaded THEN <<"invalidate">> ELSE <<>>) \o <<"full-reload">>

\* a call that ended keeps no locals
Ended(tk) ==
    [tk EXCEPT !.decl = NoDecl, !.preTree = Undefined, !.preWatch = {},
               !.preBy = 0]

\* what the hook does once `await buildMarkdownData()` returned: buildStart
\* registers the watched files, handleHotUpdate sends its signals.  tk is the
\* task as buildMarkdownData leaves it, watched the watch set at that time.
Finish(t, tk, watched) ==
    /\ tasks' = [tasks EXCEPT ![t] = Ended([tk EXCEPT !.pc = "done",
                                      !.signalled = (tk.kind = "hot")])]
    /\ IF tk.kind = "start"
       THEN /\ addWatch' = addWatch \cup watched
            /\ sent' = sent
       ELSE /\ addWatch' = addWatch
            /\ sent' = sent \o HotSignals(moduleLoaded)

\* buildMarkdownData rejects at `step`: the hook rejects with it
Fail(t, tk, step) ==
    tasks' = [tasks EXCEPT ![t] = Ended([tk EXCEPT !.pc = "failed",
                                                   !.error = step])]

\* `markdownData = await scanDirectory(...)` resumes: the tree is assigned,
\* watchedFiles is cleared and collectMarkdownFiles is called
ScanDone(t) ==
    /\ t \in DOMAIN tasks
    /\ tasks[t].pc = "scan"
    /\ LET r == scanDirectory(fs, platform, RootP, tasks[t].scanDir, markdownDir,
                              opts.parseFrontmatter, opts.parseMarkdown)
           tk == [tasks[t] EXCEPT !.sawDir = StatOk(fs[RootP])]
       IN  IF r.ok
           THEN /\ markdownData' = Defined(r.tree)
                /\ watchedFiles' = {}
                /\ treeBy' = t
                /\ watchBy' = {}
                /\ tasks' = [tasks EXCEPT ![t] = [tk EXCEPT !.pc = "collect",
                                                            !.installed = TRUE]]
           ELSE /\ Fail(t, tk, "scan")
                /\ UNCHANGED <<markdownData, watchedFiles, treeBy, watchBy>>
    /\ UNCHANGED <<platform, opts, fs, rootDir, markdownDir, declFile, sent,
                   addWatch, moduleLoaded, nEvents, nFsOps>>

\* `generateTypes && rootDir`
ShouldGenerateTypes == opts.generateTypes /\ rootDir # Unset

\* `await collectMarkdownFiles(markdownDir)` resumes: the files are added
\* to watchedFiles; with type generation the declaration is synthesized
\* from markdownData and its persisting begins
CollectDone(t) ==
    /\ t \in DOMAIN tasks
    /\ tasks[t].pc = "collect"
    /\ LET c == collectMarkdownFiles(fs, platform, RootP, markdownDir)
           seen == [tasks[t] EXCEPT
                      !.sawDir = tasks[t].sawDir \/ StatOk(fs[RootP])]
           tk == [seen EXCEPT !.filled = TRUE]
       IN  IF c.ok
           THEN /\ watchedFiles' = watchedFiles \cup c.files
                /\ watchBy' = watchBy \cup {t}
                /\ IF ShouldGenerateTypes
                   THEN /\ tasks' = [tasks EXCEPT ![t] =
                              [tk EXCEPT !.pc = "persist",
                                         !.decl = [exists |-> TRUE, text |->
                                            generateTypeDeclaration(
                                               markdownData.tree, VirtualModuleId,
                                               opts.parseFrontmatter,
                                               opts.parseMarkdown)]]]
                        /\ UNCHANGED <<sent, addWatch>>
                   ELSE Finish(t, tk, watchedFiles')
           ELSE /\ Fail(t, seen, "collect")
                /\ UNCHANGED <<watchedFiles, watchBy, sent, addWatch>>
    /\ UNCHANGED <<platform, opts, fs, rootDir, markdownDir, markdownData,
                   declFile, moduleLoaded, nEvents, nFsOps,
                   treeBy>>

\* (variant: the rejected write is swallowed and the hook goes on)
OnPersistFailure_swallowed(t, tk) == Finish(t, tk, watchedFiles)

\* a rejected stat, mkdir or writeFile is not caught: buildMarkdownData
\* rejects with it, and the hook awaiting it does too
OnPersistFailure(t, tk) ==
    /\ Fail(t, tk, "persist")
    /\ UNCHANGED <<sent, addWatch>>

\* the stat / mkdir / writeFile of the declaration end: written (ok) or
\* rejected
PersistDone(t, ok) ==
    /\ t \in DOMAIN tasks
    /\ tasks[t].pc = "persist"
    /\ IF ok
       THEN /\ declFile' = tasks[t].decl
            /\ Finish(t, [tasks[t] EXCEPT !.wrote = TRUE], watchedFiles)
       ELSE /\ OnPersistFailure(t, tasks[t])
            /\ UNCHANGED declFile
    /\ UNCHANGED <<platform, opts, fs, rootDir, markdownDir, markdownData,
                   watchedFiles, moduleLoaded, nEvents,
                   nFsOps, treeBy, watchBy>>

\* load(resolvedVirtualModuleId): returns LoadResult(markdownData); the
\* host then holds the module in its module graph
Load ==
    /\ tasks # <<>>
    /\ ~moduleLoaded
    /\ moduleLoaded' = TRUE
    /\ UNCHANGED <<platform, opts, fs, rootDir, markdownDir, markdownData,
                   watchedFiles, tasks, declFile, sent, addWatch, nEvents, nFsOps, treeBy, watchBy>>

\* the entries a path takes while the plugin runs
LiveAllowed(p) ==
    CASE p = RootP -> {"none", "dir_noread"}
      [] p = P_gha -> {"none", "nofm", "unreadable"}
      [] OTHER     -> {}

\* the disk changes: the entry at p becomes e; what was below a removed
\* directory goes with it
FsChange(p, e) ==
    /\ nFsOps < MaxFsOps
    /\ e \in LiveAllowed(p)
    /\ e # fs[p]
    /\ p # RootP => fs[Parent(p)] = "dir"
    /\ fs' = [q \in Paths |->
                IF q = p THEN e
                ELSE IF e # "dir" /\ Len(q) > Len(p) /\ SubSeq(q, 1, Len(p)) = p
                     THEN "none"
                     ELSE fs[q]]
    /\ nFsOps' = nFsOps + 1
    /\ UNCHANGED <<platform, opts, rootDir, markdownDir, markdownData,
                   watchedFiles, tasks, declFile, sent, addWatch, moduleLoaded,
                   nEvents, treeBy, watchBy>>

Next ==
    \/ ConfigResolved
    \/ BuildStart
    \/ \E file \in HotFiles(platform) : HandleHotUpdate(file)
    \/ \E t \in DOMAIN tasks : ScanDone(t)
    \/ \E t \in DOMAIN tasks : CollectDone(t)
    \/ \E t \in DOMAIN tasks : \E ok \in BOOLEAN : PersistDone(t, ok)
    \/ Load
    \/ \E p \in Paths : \E e \in LiveAllowed(p) : FsChange(p, e)

Spec == Init /\ [][Next]_vars

-----------------------------------------------------------------------------
(* The first build on every disk of the model: the plugin is configured,  *)
(* started, its scan returns, the watch set is filled and the declaration  *)
(* synthesized                                                             *)

InitScan ==
    /\ InitCommon
    /\ platform \in {"posix", "win32"}
    /\ opts \in {o \in Options : o.generateTypes}
    /\ fs \in AllFs

NextScan ==
    \/ ConfigResolved
    \/ BuildStart
    \/ \E t \in DOMAIN tasks : ScanDone(t)
    \/ \E t \in DOMAIN tasks : CollectDone(t)

ScanSpec == InitScan /\ [][NextScan]_vars

-----------------------------------------------------------------------------
(* Reading trees *)

\* every node of a tree: its key in its parent's mapping, the node, the
\* name fields and the keys of its ancestor containers (outermost first)
RECURSIVE NodesIn(_, _, _)
NodesIn(tree, ancNames, ancKeys) ==
    UNION {{[key |-> k, node |-> tree[k], ancNames |-> ancNames,
             ancKeys |-> ancKeys]}
           \cup (IF tree[k].type = "directory"
                 THEN NodesIn(tree[k].children, Append(ancNames, tree[k].name),
                              Append(ancKeys, k))
                 ELSE {})
           : k \in DOMAIN tree}

AllNodes(tree) == NodesIn(tree, <<>>, <<>>)

\* the tree has an entry at the relative path p (a sequence of entry names)
RECURSIVE HasEntry(_, _)
HasEntry(tree, p) ==
    /\ p # <<>>
    /\ p[1] \in DOMAIN tree
    /\ \/ Len(p) = 1
       \/ /\ tree[p[1]].type = "directory"
          /\ HasEntry(tree[p[1]].children, Tail(p))

\* the tree has a DocumentNode at the relative path p
IsDocAt(tree, p) ==
    \E n \in AllNodes(tree) : n.ancKeys \o <<n.key>> = p /\ n.node.type = "file"

\* a name followed by one of the two extensions: something, then ".md" or
\* ".markdown", in that case
HasDocExtension(name) ==
    \/ EndsWith(name, DotMd) /\ Len(name) > Len(DotMd)
    \/ EndsWith(name, DotMarkdown) /\ Len(name) > Len(DotMarkdown)

\* p is strictly below q
Below(p, q) == Len(p) > Len(q) /\ SubSeq(p, 1, Len(q)) = q

\* names joined by a separator
RECURSIVE JoinWith(_, _)
JoinWith(sep, names) ==
    IF names = <<>> THEN <<>>
    ELSE IF Len(names) = 1 THEN names[1]
    ELSE names[1] \o <<sep>> \o JoinWith(sep, Tail(names))

-----------------------------------------------------------------------------
(* Properties of the tree scanDirectory returns (checked under ScanSpec) *)

\* C6: in every tree the scan returns, at every depth, every ContainerNode
\* has a non-empty children mapping and at least one DocumentNode below it;
\* a directory of the disk with no qualifying document below it has no entry
\* in the tree.
C6_NoEmptyContainer ==
    markdownData.def =>
       /\ \A n \in AllNodes(markdownData.tree) :
             n.node.type = "directory" =>
                /\ DOMAIN n.node.children # {}
                /\ \E m \in AllNodes(n.node.children) : m.node.type = "file"
       /\ \A p \in Paths \ {RootP} :
             (/\ fs[p] \in DirTags
              /\ ~\E q \in Paths : /\ Below(q, p)
                                   /\ fs[q] \in FileTags
                                   /\ HasDocExtension(q[Len(q)]))
             => ~HasEntry(markdownData.tree, p)

\* a scan returned a tree with a container, while g/h holds only a
\* non-matching file and a.md is an empty directory
C6_Witness ==
    /\ markdownData.def
    /\ fs[P_gh] = "dir" /\ fs[P_ghx] # "none" /\ fs[P_gha] = "none"
    /\ fs[P_a] = "dir"
    /\ HasEntry(markdownData.tree, P_g)
    /\ ~HasEntry(markdownData.tree, P_gh)

\* a document's header section holds at least one field
HasHeaderFields(rawContent) == DOMAIN Matter(rawContent).data # {}

\* C7 (as claimed): for every DocumentNode, frontmatter is present iff body
\* is present, and both are present iff header extraction was enabled.
C7_PairingAsClaimed ==
    markdownData.def =>
       \A n \in AllNodes(markdownData.tree) :
          n.node.type = "file" =>
             /\ ("frontmatter" \in DOMAIN n.node) <=> ("body" \in DOMAIN n.node)
             /\ ("body" \in DOMAIN n.node) <=> opts.parseFrontmatter

\* C7 (amended): for every DocumentNode, body is present iff header
\* extraction was enabled; frontmatter is present iff header extraction was
\* enabled and the document's header section holds at least one field (so
\* frontmatter is never present without body).
C7_Pairing ==
    markdownData.def =>
       \A n \in AllNodes(markdownData.tree) :
          n.node.type = "file" =>
             /\ ("body" \in DOMAIN n.node) <=> opts.parseFrontmatter
             /\ ("frontmatter" \in DOMAIN n.node) <=>
                   (opts.parseFrontmatter /\ HasHeaderFields(n.node.content))
             /\ ("frontmatter" \in DOMAIN n.node) => ("body" \in DOMAIN n.node)

\* with extraction enabled, the tree holds a document with body and no
\* frontmatter (no header section), one with an empty header section and
\* one with both fields
C7_Witness ==
    /\ markdownData.def
    /\ opts.parseFrontmatter
    /\ fs[P_gha] = "nofm" /\ fs[P_gb] = "emptyfm" /\ fs[P_a] = "fm"
    /\ \E n \in AllNodes(markdownData.tree) :
          /\ n.node.type = "file"
          /\ "body" \in DOMAIN n.node
          /\ "frontmatter" \notin DOMAIN n.node
    /\ \E n \in AllNodes(markdownData.tree) :
          /\ n.node.type = "file"
          /\ "body" \in DOMAIN n.node
          /\ "frontmatter" \in DOMAIN n.node

ScanRejected ==
    \E t \in DOMAIN tasks : tasks[t].pc = "failed" /\ tasks[t].error = "scan"

-----------------------------------------------------------------------------
(* Properties of the rebuild protocol (checked under Spec) *)

\* the absolute paths of the DocumentNodes of a tree
DocPathsOf(tree) ==
    {Join(platform, markdownDir, n.node.path) :
        n \in {m \in AllNodes(tree) : m.node.type = "file"}}

\* C1: in every state a reader sees a consistent pair: watchedFiles was
\* filled, and only, by the rebuild whose tree is markdownData (before the
\* first build: nothing installed, nothing watched).  A watch set that
\* holds exactly the documents of the tree it is read with counts as
\* consistent too: no reader can tell it from one.
C1_ConsistentPair ==
    \/ watchBy = {treeBy}
    \/ markdownData.def /\ watchedFiles = DocPathsOf(markdownData.tree)

\* a scan-time step of the rebuild of task t rejects in this step
ScanTimeFailure(t) ==
    /\ Running(tasks[t])
    /\ tasks'[t].pc = "failed"
    /\ tasks'[t].error \in {"scan", "collect"}

\* C2: when a scan-time step of a rebuild fails (in scanDirectory or in the
\* watch-set enumeration), markdownData and watchedFiles are afterwards the
\* ones installed when the rebuild started.
C2_FailedRebuildKeepsInstalled ==
    [][\A t \in DOMAIN tasks :
          ScanTimeFailure(t) =>
             /\ markdownData' = tasks[t].preTree
             /\ watchedFiles' = tasks[t].preWatch]_vars

\* C3: a change notification for a path that is not in watchedFiles starts
\* no rebuild, leaves markdownData, watchedFiles and the declaration file
\* as they are, and signals neither invalidation nor reload.
C3_IrrelevantChangeIsNoOp ==
    [][\A file \in HotFiles(platform) :
          (HandleHotUpdate(file) /\ file \notin watchedFiles) =>
             UNCHANGED <<markdownData, watchedFiles, tasks, declFile, sent,
                         addWatch, moduleLoaded, treeBy, watchBy>>]_vars

\* a notification was handled while files were watched, and no rebuild was
\* started for it
C3_Witness ==
    /\ nEvents = 1
    /\ watchedFiles # {}
    /\ \A t \in DOMAIN tasks : tasks[t].kind = "start" /\ tasks[t].pc = "done"

\* the positions of a message in sent
Positions(msg) == {i \in DOMAIN sent : sent[i] = msg}

HotTasks == {t \in DOMAIN tasks : tasks[t].kind = "hot"}

\* C4: a relevant change notification starts one rebuild, a scan of the
\* whole configured directory; handleHotUpdate signals only once that
\* rebuild returned (tree assigned, watch set refilled, declaration written
\* when enabled), and then sends the invalidation (when the module is
\* loaded) directly followed by full-reload; no signal is sent while a
\* rebuild of a notification is still to return, and when its rebuild
\* returned the call has ended.
C4_SignalsFollowRebuild ==
    /\ \A t \in HotTasks :
          /\ tasks[t].scanDir = markdownDir
          /\ tasks[t].signalled =>
                /\ tasks[t].pc = "done"
                /\ tasks[t].installed /\ markdownData.def
                /\ tasks[t].filled
                /\ ShouldGenerateTypes => (tasks[t].wrote /\ declFile.exists)
          /\ tasks[t].pc = "done" => tasks[t].signalled
    /\ Cardinality(HotTasks) <= nEvents
    /\ Cardinality(Positions("full-reload"))
          = Cardinality({t \in HotTasks : tasks[t].signalled})
    /\ \A i \in Positions("invalidate") :
          i + 1 \in Positions("full-reload")
    /\ \A i \in DOMAIN sent : sent[i] \in {"invalidate", "full-reload"}

\* a rebuild of a notification returned with the module loaded: it was
\* invalidated, then the reload was sent, and no call is in flight
C4_Witness ==
    /\ \E t \in HotTasks : tasks[t].pc = "done" /\ tasks[t].signalled
    /\ sent = <<"invalidate", "full-reload">>
    /\ \A t \in DOMAIN tasks : ~Running(tasks[t])

\* every call returned, none is in flight
Idle == tasks # <<>> /\ \A t \in DOMAIN tasks : tasks[t].pc = "done"

\* C5: after every completed rebuild (Idle), watchedFiles is exactly the
\* set of absolute paths of the DocumentNodes of markdownData.
C5_WatchSetIsTreeDocuments ==
    Idle => watchedFiles = DocPathsOf(markdownData.tree)

-----------------------------------------------------------------------------
(* Properties of the first build on every disk (checked under ScanSpec) *)

\* the documented default include patterns ('**/*.md', '**/*.markdown') on a
\* relative path: the entry name is something followed by the suffix
MatchesDefaultInclude(p) == HasDocExtension(p[Len(p)])

\* the documented default exclude pattern ('**/node_modules/**') on a
\* relative path: one of the directories above the entry is node_modules
MatchesDefaultExclude(p) == \E i \in 1..(Len(p) - 1) : p[i] = N_node_modules

\* C11: with the default patterns, a file is a DocumentNode of the tree, or
\* a member of watchedFiles, only if its path matches an include pattern
\* and no exclude pattern: no file below a node_modules directory of the
\* source directory is in the tree or in the watch set.
C11_PatternsDecideDocuments ==
    \A p \in Paths \ {RootP} :
       (\/ markdownData.def /\ IsDocAt(markdownData.tree, p)
        \/ AbsOf(platform, p) \in watchedFiles)
       => (MatchesDefaultInclude(p) /\ ~MatchesDefaultExclude(p))

\* the character an escape sequence of a TypeScript string literal denotes
EscapeOf(c) ==
    CASE c = "b" -> "U+0008"
      [] c = "f" -> "U+000C"
      [] c = "n" -> "U+000A"
      [] c = "r" -> "U+000D"
      [] c = "t" -> "U+0009"
      [] c = "v" -> "U+000B"
      [] c = "0" -> "U+0000"
      [] OTHER   -> c

\* the characters a TypeScript string literal's text denotes: a backslash
\* and the character after it are one escape sequence
RECURSIVE Unescaped(_)
Unescaped(text) ==
    IF text = <<>> THEN <<>>
    ELSE IF text[1] = "\\"
         THEN IF Len(text) = 1 THEN <<>>
              ELSE <<EscapeOf(text[2])>> \o Unescaped(SubSeq(text, 3, Len(text)))
         ELSE <<text[1]>> \o Unescaped(Tail(text))

\* the string a single-quoted literal of the declaration denotes
LiteralValue(lit) == Unescaped(SubSeq(lit, 2, Len(lit) - 1))

\* the declaration a rebuild synthesized and is persisting
PendingDecls == {tasks[t].decl : t \in {u \in DOMAIN tasks : tasks[u].decl.exists}}

\* an object type of the declaration has the key structure of a mapping of
\* the tree: the same keys, and under each key a node type of the node's
\* kind, whose name and path literals denote the node's name and path, and
\* whose children (for a container) have the structure of its children
RECURSIVE SameKeyStructure(_, _)
SameKeyStructure(members, tree) ==
    /\ Cardinality(DOMAIN members) = Cardinality(DOMAIN tree)
    /\ \A k \in DOMAIN tree :
          \E q \in DOMAIN members :
             /\ LiteralValue(q) = k
             /\ members[q].type = tree[k].type
             /\ LiteralValue(members[q].name) = tree[k].name
             /\ LiteralValue(members[q].path) = tree[k].path
             /\ tree[k].type = "directory" =>
                   SameKeyStructure(members[q].children, tree[k].children)

\* C13: the synthesized declaration declares the default export of the
\* module named by the configured identifier, with the key structure of the
\* tree: the root keys are the root entry names, every container's children
\* type has its child entry names as keys, at the same nesting, and every
\* node's name and path literals denote the node's name and path; the empty
\* tree gives an empty object type.
C13_DeclarationHasTreeStructure ==
    \A d \in PendingDecls :
       /\ d.text.module = VirtualModuleId
       /\ SameKeyStructure(d.text.markdownData, markdownData.tree)

\* every DocumentNode of a tree with the type the declaration gives it
RECURSIVE DocTypes(_, _)
DocTypes(members, tree) ==
    UNION {IF tree[k].type = "file"
           THEN {[type |-> members[Quoted(k)], node |-> tree[k]]}
           ELSE DocTypes(members[Quoted(k)].children, tree[k].children)
           : k \in DOMAIN tree}

\* the optional fields of a DocumentNode
OptionalFields == {"frontmatter", "body", "html"}

\* C14: for every DocumentNode, each of frontmatter, body and html is
\* declared (as a required member of the document's type) if and only if
\* the node of the tree has it.
C14_DeclaredFieldsArePresent ==
    \A d \in PendingDecls :
       \A dt \in DocTypes(d.text.markdownData, markdownData.tree) :
          \A fld \in OptionalFields :
             (fld \in DOMAIN dt.type) <=> (fld \in DOMAIN dt.node)

\* C16: with header extraction enabled, a DocumentNode has frontmatter if
\* and only if gray-matter's data of its content is non-empty, and then
\* frontmatter is that data; it always has body, gray-matter's content (a
\* document without a header section has its whole text as body and no
\* frontmatter).  With header extraction disabled it has neither.
C16_AttachmentRule ==
    markdownData.def =>
       \A n \in AllNodes(markdownData.tree) :
          n.node.type = "file" =>
             LET parsed == Matter(n.node.content)
             IN  IF opts.parseFrontmatter
                 THEN /\ "body" \in DOMAIN n.node
                      /\ n.node.body = parsed.content
                      /\ ("frontmatter" \in DOMAIN n.node) <=> (DOMAIN parsed.data # {})
                      /\ "frontmatter" \in DOMAIN n.node =>
                            n.node.frontmatter = parsed.data
                 ELSE /\ "body" \notin DOMAIN n.node
                      /\ "frontmatter" \notin DOMAIN n.node

\* a tree built with extraction enabled holds a.md with its header field
\* and the rest as body, and g/h/a.md (no header section) with its whole
\* text as body and no frontmatter
C16_Witness ==
    /\ markdownData.def
    /\ opts.parseFrontmatter
    /\ \E n \in AllNodes(markdownData.tree) :
          /\ n.node.type = "file"
          /\ n.key = N_a_md /\ n.ancKeys = <<>>
          /\ "frontmatter" \in DOMAIN n.node
          /\ n.node.frontmatter = [title |-> "Welcome"]
          /\ n.node.body = "Body"
    /\ \E n \in AllNodes(markdownData.tree) :
          /\ n.node.type = "file"
          /\ n.ancKeys = <<N_g, N_h>>
          /\ "frontmatter" \notin DOMAIN n.node
          /\ n.node.body = n.node.content

-----------------------------------------------------------------------------
(* Properties of the declaration's persisting and of overlapping rebuilds *)
(* (checked under Spec)                                                   *)

\* C12: when the persisting of the declaration fails during a rebuild, the
\* rebuild and the hook that awaits it reject with that failure (the hook
\* goes no further: no signal, no watch registration); markdownData is left
\* as it is, a tree installed by this rebuild's scan or by one that returned
\* since (never the one from before the rebuild), and it is what load
\* exports; the declaration file is left as it was.
C12_PersistFailureSurfaces ==
    [][\A t \in DOMAIN tasks :
          PersistDone(t, FALSE) =>
             /\ tasks'[t].pc = "failed" /\ tasks'[t].error = "persist"
             /\ ~tasks'[t].signalled
             /\ sent' = sent /\ addWatch' = addWatch
             /\ markdownData' = markdownData /\ markdownData.def
             /\ tasks[t].installed
             /\ treeBy = t \/ (treeBy # tasks[t].preBy /\ tasks[treeBy].installed)
             /\ LoadResult(markdownData')
                   = [exportDefault |-> JsonOfTree(markdownData.tree)]
             /\ declFile' = declFile]_vars

\* the rebuild of a notification failed when persisting: its tree (with
\* documents) is installed, the declaration file is the one the first build
\* wrote, and no signal was sent
C12_Witness ==
    /\ \E t \in HotTasks :
          /\ tasks[t].pc = "failed" /\ tasks[t].error = "persist"
          /\ treeBy = t
    /\ markdownData.def /\ DOMAIN markdownData.tree # {}
    /\ declFile.exists
    /\ sent = <<>>

\* the declaration of the installed tree
DeclOfInstalled ==
    [exists |-> TRUE,
     text |-> generateTypeDeclaration(markdownData.tree, VirtualModuleId,
                                      opts.parseFrontmatter, opts.parseMarkdown)]

\* C15: with type generation enabled, whenever a rebuild completes (the
\* first build or the rebuild of a notification) the declaration file is
\* then exactly the synthesis of the installed tree; with type generation
\* disabled the declaration file is never created.
C15_DeclarationFollowsTree ==
    /\ [](~opts.generateTypes => declFile = NoDecl)
    /\ [][\A t \in DOMAIN tasks :
             (/\ Running(tasks[t])
              /\ tasks'[t].pc = "done"
              /\ opts.generateTypes)
             => declFile' = DeclOfInstalled']_vars

\* C17: every change notification for a document of the installed tree
\* starts a rebuild (whose scan then starts after the notification), also
\* when another rebuild is in progress.
C17_NoRelevantChangeLost ==
    [][\A file \in HotFiles(platform) :
          (/\ HandleHotUpdate(file)
           /\ markdownData.def
           /\ file \in DocPathsOf(markdownData.tree))
          => /\ Len(tasks') = Len(tasks) + 1
             /\ tasks'[Len(tasks')].pc = "scan"
             /\ tasks'[Len(tasks')].file = file]_vars

\* the rebuild that started last
LastStarted == Len(tasks)

\* C18: once every rebuild has completed, markdownData was installed by the
\* rebuild that started last, watchedFiles was filled by that rebuild only,
\* and with type generation the declaration file is the synthesis of that
\* tree.  (Rebuilds that ran one after the other give this by themselves:
\* the formula is at stake only where rebuilds overlapped.)
C18_LastStartedWins ==
    Idle =>
       /\ treeBy = LastStarted
       /\ watchBy = {LastStarted}
       /\ ShouldGenerateTypes => declFile = DeclOfInstalled

=============================================================================
